---- MODULE Spec2Model ----
(***************************************************************************)
(* Model of the transaction anomaly detector                               *)
(* (transactions_alert_system/src/anomaly_detector.py) and of the          *)
(* POST /transactions handler that drives it (app.py).                     *)
(*                                                                         *)
(* Conventions                                                             *)
(*  - a float is an exact rational <<n, d>> in lowest terms with d > 0;    *)
(*    a square root is rounded down to two decimals;                       *)
(*  - a time bucket "HHh MM" is the pair <<HH, MM>> of its two numeric     *)
(*    fields, so the lexical order of the strings is the order of pairs;   *)
(*  - an observation (TransactionBase) is the triple <<time, status,       *)
(*    count>>; a DataFrame of observations is a sequence of them;          *)
(*  - the verdicts of the fitted IsolationForest are an input of the       *)
(*    prediction step: any vector over {-1, 1}, one entry per feature row; *)
(*  - the feature table keeps the columns the code reads afterwards (time  *)
(*    and the five feature columns and their sources), not the per-status  *)
(*    pivot columns; the write-only baselines table and the debugging CSV  *)
(*    file are left out.                                                   *)
(*                                                                         *)
(* Specifications                                                          *)
(*  - Spec: one detector, update_baseline and detect_anomalies as calls;   *)
(*  - SpecApp: the POST /transactions handler, one detector per request;   *)
(*  - SpecConc: update_baseline statement by statement beside              *)
(*    detect_anomalies calls on the same detector.                         *)
(***************************************************************************)
EXTENDS Integers, Sequences, FiniteSets, TLC

VARIABLES
    db,                   \* rows of the transactions table visible to the session
    baseline_stats,       \* AnomalyDetector.baseline_stats: hour -> status -> Stats
    baseline_features_df, \* AnomalyDetector.baseline_features_df (<<>> when None)
    isolation_forest,     \* AnomalyDetector.isolation_forest
    mad_arg,              \* history: the mad argument last passed to Stats() per hour, status
    trained_on,           \* history: where the data read to build the baseline and to
                          \* fit the model came from
    call,                 \* the call in progress: operation, inputs, result
    served,               \* number of POST /transactions requests served
    upd,                  \* position of an update_baseline that runs step by step
    last_batch            \* history: the batch of the detector's latest update_baseline
                          \* call that returned (<<>> before the first)

engine == <<baseline_stats, baseline_features_df, isolation_forest, mad_arg>>

vars == <<db, baseline_stats, baseline_features_df, isolation_forest, mad_arg,
          trained_on, call, served, upd, last_batch>>

----------------------------------------------------------------------------
(* Bounds of the model *)

MaxLen == 2
PadRows == 11
MaxRequests == 2

----------------------------------------------------------------------------
(* Rational arithmetic *)

Abs(x) == IF x < 0 THEN -x ELSE x

RECURSIVE Gcd(_, _)
Gcd(a, b) == IF b = 0 THEN a ELSE Gcd(b, a % b)

Rat(n, d) ==
    LET s == IF d < 0 THEN -1 ELSE 1
        g == Gcd(Abs(n), Abs(d))
    IN  IF n = 0 THEN <<0, 1>> ELSE <<(s * n) \div g, (s * d) \div g>>

RInt(k) == <<k, 1>>
RAdd(a, b) == Rat(a[1] * b[2] + b[1] * a[2], a[2] * b[2])
RSub(a, b) == Rat(a[1] * b[2] - b[1] * a[2], a[2] * b[2])
RMul(a, b) == Rat(a[1] * b[1], a[2] * b[2])
RDiv(a, b) == Rat(a[1] * b[2], a[2] * b[1])
RLt(a, b) == a[1] * b[2] < b[1] * a[2]
RGt(a, b) == RLt(b, a)
RAbs(a) == <<Abs(a[1]), a[2]>>
RMax(a, b) == IF RLt(a, b) THEN b ELSE a

RECURSIVE ISqrtBetween(_, _, _, _)
ISqrtBetween(lo, hi, a, b) ==
    \* the largest r in lo..hi with r*r*b <= a
    IF lo = hi THEN lo
    ELSE LET mid == (lo + hi + 1) \div 2
         IN  IF mid * mid * b <= a THEN ISqrtBetween(mid, hi, a, b)
             ELSE ISqrtBetween(lo, mid - 1, a, b)

RSqrt(x) == Rat(ISqrtBetween(0, 6400, (10000 * x[1]) \div x[2], 1), 100)

----------------------------------------------------------------------------
(* Data model *)

TransactionStatus ==
    {"approved", "denied", "reversed", "refunded", "processing",
     "backend_reversed", "failed"}

BAD_STATUS == {"failed", "denied", "reversed", "backend_reversed"}

AlertLevel == {"WARNING", "CRITICAL"}

TimeOf(tx) == tx[1]
StatusOf(tx) == tx[2]
CountOf(tx) == tx[3]

\* Stats(**kwargs): the model declares mean, std, p95 and p99; any other
\* keyword (mad) is ignored by the constructor and is no attribute of the object.
Stats(kwargs) == [f \in {"mean", "std", "p95", "p99"} |-> kwargs[f]]

----------------------------------------------------------------------------
(* Sequences *)

RECURSIVE SeqSum(_)
SeqSum(s) == IF s = <<>> THEN 0 ELSE Head(s) + SeqSum(Tail(s))

RECURSIVE SeqSumSq(_)
SeqSumSq(s) == IF s = <<>> THEN 0 ELSE Head(s) * Head(s) + SeqSumSq(Tail(s))

RECURSIVE Insert(_, _)
Insert(x, s) ==
    IF s = <<>> THEN <<x>>
    ELSE IF x <= Head(s) THEN <<x>> \o s
    ELSE <<Head(s)>> \o Insert(x, Tail(s))

RECURSIVE Sorted(_)
Sorted(s) == IF s = <<>> THEN <<>> ELSE Insert(Head(s), Sorted(Tail(s)))

Range(s) == {s[i] : i \in DOMAIN s}

----------------------------------------------------------------------------
(* Program constants *)

MinTrainRows == 10
Window == 60

----------------------------------------------------------------------------
(* BaselineBuilder: _get_baseline_by_hour_and_status *)

\* a time "HHh MM" is the pair <<HH, MM>>; a text whose part before "h" is not
\* a numeral is a pair whose first field is no natural number
ExtractHourFromTime(time_str) == time_str[1]

\* int(time_str.split("h")[0]) returns: it raises ValueError otherwise
Parses(time_str) == time_str[1] \in Nat

\* df["time"].apply(self._extract_hour_from_time) returns for every row
AllParse(df) == \A i \in DOMAIN df : Parses(TimeOf(df[i]))

\* df[df["status"] == status]["count"]
RECURSIVE CountsWithStatus(_, _)
CountsWithStatus(df, status) ==
    IF df = <<>> THEN <<>>
    ELSE (IF StatusOf(Head(df)) = status THEN <<CountOf(Head(df))>> ELSE <<>>)
         \o CountsWithStatus(Tail(df), status)

Mean(c) == Rat(SeqSum(c), Len(c))

\* Series.std(): sample standard deviation (ddof = 1), NaN for a single value;
\* the builder replaces NaN by 1.0
StdOrOne(c) ==
    LET n == Len(c)
    IN  IF n = 1 THEN RInt(1)
        ELSE RSqrt(Rat(n * SeqSumSq(c) - SeqSum(c) * SeqSum(c), n * (n - 1)))

\* Series.quantile(q / 100): linear interpolation between order statistics
Quantile(c, q) ==
    LET v == Sorted(c)
        pos == q * (Len(c) - 1)
        lo == pos \div 100
        fr == pos % 100
    IN  IF fr = 0 THEN RInt(v[lo + 1])
        ELSE Rat(100 * v[lo + 1] + fr * (v[lo + 2] - v[lo + 1]), 100)

Median(c) == Quantile(c, 50)

\* the keyword arguments the builder passes to Stats() for one status
StatsKwargs(df, status) ==
    LET c == CountsWithStatus(df, status)
    IN  [mean |-> Mean(c), std |-> StdOrOne(c), mad |-> Median(c),
         p95 |-> Quantile(c, 95), p99 |-> Quantile(c, 99)]

HoursIn(df) == {ExtractHourFromTime(TimeOf(df[i])) : i \in DOMAIN df}

StatusesIn(df) == {StatusOf(df[i]) : i \in DOMAIN df}

\* variant: an entry the store already holds is added to, not replaced
GetBaselineByHourAndStatusAccumulating(stats, df) ==
    [hour \in (DOMAIN stats) \cup HoursIn(df) |->
        IF hour \in HoursIn(df)
        THEN [status \in StatusesIn(df) |->
                 LET new == Stats(StatsKwargs(df, status))
                 IN  IF hour \in DOMAIN stats /\ status \in DOMAIN stats[hour]
                     THEN [new EXCEPT !.mean = RAdd(stats[hour][status].mean, new.mean)]
                     ELSE new]
        ELSE stats[hour]]

\* baseline_stats after _get_baseline_by_hour_and_status(df), from its value before
GetBaselineByHourAndStatus(stats, df) ==
    [hour \in (DOMAIN stats) \cup HoursIn(df) |->
        IF hour \in HoursIn(df)
        THEN [status \in StatusesIn(df) |-> Stats(StatsKwargs(df, status))]
        ELSE stats[hour]]

\* history of the mad keyword of those same Stats() calls
MadArgs(mads, df) ==
    [hour \in (DOMAIN mads) \cup HoursIn(df) |->
        IF hour \in HoursIn(df)
        THEN [status \in StatusesIn(df) |-> StatsKwargs(df, status).mad]
        ELSE mads[hour]]

\* the store after the rows whose time parses only were processed
BaselineUpdateRowwise(stats, df) ==
    IF AllParse(df)
    THEN [raised |-> FALSE, stats |-> GetBaselineByHourAndStatus(stats, df)]
    ELSE [raised |-> TRUE,
          stats |-> GetBaselineByHourAndStatus(
                        stats, SelectSeq(df, LAMBDA o : Parses(TimeOf(o))))]

\* _get_baseline_by_hour_and_status as called: the hour column of the whole
\* frame is computed first, so a time that does not parse raises before the
\* store is written
BaselineUpdate(stats, df) ==
    IF AllParse(df)
    THEN [raised |-> FALSE, stats |-> GetBaselineByHourAndStatus(stats, df)]
    ELSE [raised |-> TRUE, stats |-> stats]

----------------------------------------------------------------------------
(* FeatureExtractor: _prepare_features_dataframe *)

TimeLt(a, b) == a[1] < b[1] \/ (a[1] = b[1] /\ a[2] < b[2])

TimesIn(df) == {TimeOf(df[i]) : i \in DOMAIN df}

\* sort_values("time"): the distinct time buckets in ascending order
RECURSIVE SortedTimes(_)
SortedTimes(T) ==
    IF T = {} THEN <<>>
    ELSE LET m == CHOOSE t \in T : \A u \in T : u = t \/ TimeLt(t, u)
         IN  <<m>> \o SortedTimes(T \ {m})

RECURSIVE CountsAt(_, _, _)
CountsAt(df, time, status) ==
    IF df = <<>> THEN <<>>
    ELSE (IF TimeOf(Head(df)) = time /\ StatusOf(Head(df)) = status
          THEN <<CountOf(Head(df))>> ELSE <<>>)
         \o CountsAt(Tail(df), time, status)

\* pivot_table(index="time", columns="status", values="count", fill_value=0):
\* the cell aggregates with the default aggfunc, the mean
PivotCell(df, time, status) ==
    LET c == CountsAt(df, time, status)
    IN  IF c = <<>> THEN RInt(0) ELSE Mean(c)

RECURSIVE RSumOver(_, _, _)
RSumOver(S, df, time) ==
    IF S = {} THEN RInt(0)
    ELSE LET s == CHOOSE x \in S : TRUE
         IN  RAdd(PivotCell(df, time, s), RSumOver(S \ {s}, df, time))

RawRow(df, time) ==
    LET total == RSumOver(StatusesIn(df), df, time)
        bad == RSumOver(StatusesIn(df) \cap BAD_STATUS, df, time)
    IN  [time |-> time, total_count |-> total, bad_count |-> bad,
         bad_rate |-> RDiv(bad, IF total = RInt(0) THEN RInt(1) ELSE total)]

RECURSIVE RawRows(_, _)
RawRows(df, times) ==
    IF times = <<>> THEN <<>>
    ELSE <<RawRow(df, Head(times))>> \o RawRows(df, Tail(times))

RECURSIVE RSeqSum(_)
RSeqSum(s) == IF s = <<>> THEN RInt(0) ELSE RAdd(Head(s), RSeqSum(Tail(s)))

RECURSIVE TotalCounts(_)
TotalCounts(rows) ==
    IF rows = <<>> THEN <<>> ELSE <<Head(rows).total_count>> \o TotalCounts(Tail(rows))

RECURSIVE BadRates(_)
BadRates(rows) ==
    IF rows = <<>> THEN <<>> ELSE <<Head(rows).bad_rate>> \o BadRates(Tail(rows))

\* Series.rolling(Window, min_periods=1).mean() at row i
RollingMean(col, i) ==
    LET first == IF i > Window THEN i - Window + 1 ELSE 1
        w == SubSeq(col, first, i)
    IN  RDiv(RSeqSum(w), RInt(Len(w)))

\* rows i .. Len(raw) of the table, with the deltas from the rolling means
RECURSIVE FeatureRows(_, _, _, _)
FeatureRows(raw, totals, rates, i) ==
    IF i > Len(raw) THEN <<>>
    ELSE <<[time |-> raw[i].time,
            total_count |-> raw[i].total_count,
            bad_count |-> raw[i].bad_count,
            bad_rate |-> raw[i].bad_rate,
            delta_total |-> RSub(raw[i].total_count, RollingMean(totals, i)),
            delta_bad_rate |-> RSub(raw[i].bad_rate, RollingMean(rates, i))]>>
         \o FeatureRows(raw, totals, rates, i + 1)

PrepareFeaturesDataframe(df) ==
    LET raw == RawRows(df, SortedTimes(TimesIn(df)))
    IN  FeatureRows(raw, TotalCounts(raw), BadRates(raw), 1)

----------------------------------------------------------------------------
(* OutlierModel: the IsolationForest *)

\* IsolationForest(...): no estimators_ attribute before the first fit
NewIsolationForest == [fitted |-> FALSE, X |-> <<>>]

\* _train_isolation_forest
TrainIsolationForest(forest, features_df) ==
    IF features_df # <<>> /\ Len(features_df) > MinTrainRows
    THEN [fitted |-> TRUE, X |-> features_df]
    ELSE forest

\* variant: the prediction refits the estimator on the rows it scores
PredictWithIsolationForestRefit(forest, features_df, verdicts) ==
    [predictions |-> verdicts, forest |-> [fitted |-> TRUE, X |-> features_df]]

\* _predict_with_isolation_forest: predict() leaves the estimator as it is
PredictWithIsolationForest(forest, features_df, verdicts) ==
    [predictions |-> verdicts, forest |-> forest]

\* the possible outputs of predict() on a feature table
VerdictVectors(features_df) == [DOMAIN features_df -> {-1, 1}]

----------------------------------------------------------------------------
(* ScoringEngine: _calculate_z_score *)

HasBaseline(stats, tx) ==
    /\ ExtractHourFromTime(TimeOf(tx)) \in DOMAIN stats
    /\ StatusOf(tx) \in DOMAIN stats[ExtractHourFromTime(TimeOf(tx))]

MadConsistency == <<7413, 5000>>

\* sigma and z from a baseline object that has the attributes the code reads
RobustSigma(baseline) ==
    RMax(RInt(1),
         IF RGt(baseline.mad, RInt(0)) THEN RMul(MadConsistency, baseline.mad)
         ELSE baseline.std)

\* reading an attribute the object does not have raises; the except clause
\* of _calculate_z_score turns the exception into a zero score
CalculateZScore(stats, tx) ==
    IF ~HasBaseline(stats, tx)
    THEN [z_score |-> RInt(0), sigma |-> RInt(0), msg |-> "No baseline data available"]
    ELSE LET baseline == stats[ExtractHourFromTime(TimeOf(tx))][StatusOf(tx)]
         IN  IF "mad" \notin DOMAIN baseline
             THEN [z_score |-> RInt(0), sigma |-> RInt(0),
                   msg |-> "Error calculating z-score"]
             ELSE [z_score |-> RDiv(RSub(RInt(CountOf(tx)), baseline.mean),
                                    RobustSigma(baseline)),
                   sigma |-> RobustSigma(baseline),
                   msg |-> "Z-score calculated successfully"]

----------------------------------------------------------------------------
(* AlertClassifier: _determine_alert_level, _analyze_transaction *)

\* variant: the looser rule, a percentile breach or a score breach, not gated
\* by the outlier verdict
DetermineAlertLevelUngated(stats, tx, z_score, isolation_score) ==
    IF ~HasBaseline(stats, tx) THEN "None"
    ELSE LET baseline == stats[ExtractHourFromTime(TimeOf(tx))][StatusOf(tx)]
         IN  IF \/ RGt(RInt(CountOf(tx)), baseline.p99)
                \/ RGt(RAbs(z_score), RInt(3))
             THEN "CRITICAL"
             ELSE IF \/ RGt(RInt(CountOf(tx)), baseline.p95)
                     \/ RGt(RAbs(z_score), RInt(2))
             THEN "WARNING"
             ELSE "None"

\* the level, or "None"
DetermineAlertLevel(stats, tx, z_score, isolation_score) ==
    IF ~HasBaseline(stats, tx) THEN "None"
    ELSE LET baseline == stats[ExtractHourFromTime(TimeOf(tx))][StatusOf(tx)]
         IN  IF /\ RGt(RInt(CountOf(tx)), baseline.p99)
                /\ RGt(RAbs(z_score), RInt(3))
                /\ isolation_score = -1
             THEN "CRITICAL"
             ELSE IF /\ RGt(RInt(CountOf(tx)), baseline.p95)
                     /\ RGt(RAbs(z_score), RInt(2))
                     /\ isolation_score = -1
             THEN "WARNING"
             ELSE "None"

AnomalyBase(tx, level, score) ==
    [time |-> TimeOf(tx), status |-> StatusOf(tx), count |-> CountOf(tx),
     level |-> level, score |-> score]

\* variant: no status filter, and a percentile breach alone raises the alert
AnalyzeTransactionUnfiltered(stats, tx, features_df, isolation_predictions) ==
    LET rows == {i \in DOMAIN features_df : features_df[i].time = TimeOf(tx)}
    IN  IF rows = {} \/ ~HasBaseline(stats, tx) THEN <<>>
        ELSE LET tx_index == CHOOSE i \in rows : \A j \in rows : i <= j
                 baseline == stats[ExtractHourFromTime(TimeOf(tx))][StatusOf(tx)]
                 z == CalculateZScore(stats, tx)
             IN  IF RGt(RInt(CountOf(tx)), baseline.p99)
                    /\ isolation_predictions[tx_index] = -1
                 THEN <<AnomalyBase(tx, "CRITICAL", z.z_score)>>
                 ELSE <<>>

\* the records one observation contributes: <<>> (None) or one AnomalyBase
AnalyzeTransaction(stats, tx, features_df, isolation_predictions) ==
    IF StatusOf(tx) \notin BAD_STATUS THEN <<>>
    ELSE LET rows == {i \in DOMAIN features_df : features_df[i].time = TimeOf(tx)}
         IN  IF rows = {} THEN <<>>
             ELSE LET tx_index == CHOOSE i \in rows : \A j \in rows : i <= j
                      isolation_score == isolation_predictions[tx_index]
                      z == CalculateZScore(stats, tx)
                      level == DetermineAlertLevel(stats, tx, z.z_score, isolation_score)
                  IN  IF level # "None"
                      THEN <<AnomalyBase(tx, level, z.z_score)>>
                      ELSE <<>>

\* the score-only branch of detect_anomalies, for one observation
ScoreOnly(stats, tx) ==
    IF StatusOf(tx) \in BAD_STATUS
       /\ RGt(RAbs(CalculateZScore(stats, tx).z_score), RInt(3))
    THEN <<AnomalyBase(tx, "WARNING", CalculateZScore(stats, tx).z_score)>>
    ELSE <<>>

RECURSIVE Flatten(_)
Flatten(ss) == IF ss = <<>> THEN <<>> ELSE Head(ss) \o Flatten(Tail(ss))

\* detect_anomalies: the returned list and the estimator after the call
DetectAnomalies(stats, forest, transactions, verdicts) ==
    IF transactions = <<>> THEN [anomalies |-> <<>>, forest |-> forest]
    ELSE IF ~forest.fitted
    THEN [anomalies |->
              Flatten([i \in DOMAIN transactions |-> ScoreOnly(stats, transactions[i])]),
          forest |-> forest]
    ELSE LET features_df == PrepareFeaturesDataframe(transactions)
             p == PredictWithIsolationForest(forest, features_df, verdicts)
         IN  [anomalies |->
                  Flatten([i \in DOMAIN transactions |->
                      AnalyzeTransaction(stats, transactions[i], features_df,
                                         p.predictions)]),
              forest |-> p.forest]

\* the verdict vectors predict() may return in a detect_anomalies call
VerdictsFor(forest, transactions) ==
    IF transactions = <<>> \/ ~forest.fitted THEN {<<>>}
    ELSE VerdictVectors(PrepareFeaturesDataframe(transactions))

----------------------------------------------------------------------------
(* Inputs *)

T0 == <<0, 5>>
T1 == <<1, 5>>

HistObs == {<<T0, "failed", 1>>, <<T1, "failed", 3>>}

DetObs == {<<T0, "failed", 40>>, <<T1, "failed", 14>>, <<T0, "approved", 40>>}

\* PadRows further time buckets of hour 0, enough rows for a fit
Pad == [i \in 1..PadRows |-> <<<<0, 10 + i>>, "approved", 1>>]

SeqsUpTo(S, n) == UNION {[1..k -> S] : k \in 0..n}

\* an observation whose time has no numeral before the "h"
MalformedObs == <<<<-1, 5>>, "failed", 1>>

\* batches holding an observation that does not parse, alone and beside others
MalformedBatches ==
    {<<MalformedObs>>}
    \cup {<<o, MalformedObs>> : o \in HistObs}
    \cup {<<MalformedObs, o>> : o \in HistObs}

\* a batch with exactly as many time buckets as the threshold of the fit
BoundaryBatch == SubSeq(Pad, 1, MinTrainRows)

\* historical batches: short ones, long ones (one observation and the pad),
\* the one at the threshold of the fit, and malformed ones
HistBatches ==
    (SeqsUpTo(HistObs, MaxLen) \ {<<>>})
    \cup {<<o>> \o Pad : o \in HistObs}
    \cup {BoundaryBatch}
    \cup MalformedBatches

DetBatches == SeqsUpTo(DetObs, MaxLen)

InitDbs == {<<>>, <<<<T1, "failed", 3>>>>}

----------------------------------------------------------------------------
(* The engine: construction, update_baseline, detect_anomalies *)

NoStats == [hour \in {} |-> <<>>]

\* __init__ -> _load_baseline, _train_isolation_forest over the rows of the session
ConstructedStats(rows) ==
    IF rows = <<>> THEN NoStats ELSE GetBaselineByHourAndStatus(NoStats, rows)

ConstructedMads(rows) ==
    IF rows = <<>> THEN NoStats ELSE MadArgs(NoStats, rows)

ConstructedFeatures(rows) ==
    IF rows = <<>> THEN <<>> ELSE PrepareFeaturesDataframe(rows)

ConstructedForest(rows) ==
    TrainIsolationForest(NewIsolationForest, ConstructedFeatures(rows))

\* origins of the data read: for the baseline, and for a fit that took place
Provenance(origins, features_df) ==
    [baseline |-> origins,
     model |-> IF Len(features_df) > MinTrainRows THEN origins ELSE {}]

Merged(p, q) == [baseline |-> p.baseline \cup q.baseline, model |-> p.model \cup q.model]

CallRecord(op, batch, verdicts, anomalies, response) ==
    [op |-> op, batch |-> batch, verdicts |-> verdicts, anomalies |-> anomalies,
     response |-> response, error |-> "none", repeated |-> FALSE]

\* the call ended with an exception passed to its caller
Raising(c, error) == [c EXCEPT !.error = error]

\* history: the call has the batch of the update_baseline call before it
Repeating(c, last) == [c EXCEPT !.repeated = c.batch = last]

NoUpdate ==
    [pc |-> "idle", batch |-> <<>>, hours |-> <<>>, statuses |-> <<>>, pre |-> <<>>]

InitEngine(rows) ==
    /\ baseline_stats = ConstructedStats(rows)
    /\ mad_arg = ConstructedMads(rows)
    /\ baseline_features_df = ConstructedFeatures(rows)
    /\ isolation_forest = ConstructedForest(rows)
    /\ trained_on = Provenance(IF rows = <<>> THEN {} ELSE {"persisted"},
                               ConstructedFeatures(rows))
    /\ call = CallRecord("init", <<>>, <<>>, <<>>, 0)
    /\ served = 0
    /\ upd = NoUpdate
    /\ last_batch = <<>>

Init == db \in InitDbs /\ InitEngine(db)

\* the engine computes synchronously: one call at a time
Idle == call.op \in {"init", "returned"}

UpdateBaseline ==
    /\ Idle
    /\ \E historical_data \in HistBatches :
        LET built == BaselineUpdate(baseline_stats, historical_data)
            c == CallRecord("update_baseline", historical_data, <<>>, <<>>, 0)
        IN  IF built.raised
            THEN /\ baseline_stats' = built.stats
                 /\ call' = Raising(c, "ValueError")
                 /\ UNCHANGED <<db, baseline_features_df, isolation_forest, mad_arg,
                                trained_on, served, upd, last_batch>>
            ELSE LET features_df == PrepareFeaturesDataframe(historical_data)
                 IN  /\ baseline_stats' = built.stats
                     /\ mad_arg' = MadArgs(mad_arg, historical_data)
                     /\ baseline_features_df' = features_df
                     /\ isolation_forest' =
                            TrainIsolationForest(isolation_forest, features_df)
                     /\ trained_on' =
                            Merged(trained_on, Provenance({"historical"}, features_df))
                     /\ call' = Repeating(c, last_batch)
                     /\ last_batch' = historical_data
                     /\ UNCHANGED <<db, served, upd>>

DetectAnomaliesCall ==
    /\ Idle
    /\ \E transactions \in DetBatches :
        \E verdicts \in VerdictsFor(isolation_forest, transactions) :
            LET r == DetectAnomalies(baseline_stats, isolation_forest,
                                     transactions, verdicts)
            IN  /\ isolation_forest' = r.forest
                /\ call' = CallRecord("detect_anomalies", transactions, verdicts,
                                      r.anomalies, 0)
                /\ UNCHANGED <<db, baseline_stats, baseline_features_df, mad_arg,
                               trained_on, served, upd, last_batch>>

\* the call returns to its caller
Return ==
    /\ ~Idle
    /\ call' = CallRecord("returned", <<>>, <<>>, <<>>, 0)
    /\ UNCHANGED <<db, baseline_stats, baseline_features_df, isolation_forest,
                   mad_arg, trained_on, served, upd, last_batch>>

Next == UpdateBaseline \/ DetectAnomaliesCall \/ Return

Spec == Init /\ [][Next]_vars

----------------------------------------------------------------------------
(* POST /transactions: process_transactions *)

ReqObs == {<<T0, "failed", 40>>, <<T1, "approved", 40>>}

ReqBatches == SeqsUpTo(ReqObs, MaxLen)

AppInitDbs == {<<>>, Pad}

\* NotificationService.send_alert: _format_alert_message runs outside the try
\* block and reads anomaly.transaction, which AnomalyBase does not have
SendAlert(anomalies) == IF anomalies = <<>> THEN "returned" ELSE "raised"

\* update_baseline(pd.DataFrame([...])): an empty frame has no "time" column
UpdateRaises(transactions) == transactions = <<>>

InitApp == db \in AppInitDbs /\ InitEngine(db)

\* the whole handler: the rows are added to the session, a detector is built
\* over the session (the pending rows are flushed before its query), the batch
\* is scored, alerts are sent, the baseline is updated with the batch, commit
ProcessTransactions ==
    /\ Idle
    /\ served < MaxRequests
    /\ \E transactions \in ReqBatches :
        LET rows == db \o transactions
            origins == (IF db = <<>> THEN {} ELSE {"persisted"})
                       \cup (IF transactions = <<>> THEN {} ELSE {"request"})
            stats == ConstructedStats(rows)
            mads == ConstructedMads(rows)
            built_df == ConstructedFeatures(rows)
            forest == TrainIsolationForest(NewIsolationForest, built_df)
            built == Provenance(origins, built_df)
        IN  \E verdicts \in VerdictsFor(forest, transactions) :
            LET r == DetectAnomalies(stats, forest, transactions, verdicts)
                failed == SendAlert(r.anomalies) = "raised" \/ UpdateRaises(transactions)
            IN  IF failed
                THEN /\ baseline_stats' = stats
                     /\ mad_arg' = mads
                     /\ baseline_features_df' = built_df
                     /\ isolation_forest' = r.forest
                     /\ trained_on' = built
                     /\ db' = db
                     /\ call' = CallRecord("process_transactions", transactions,
                                           verdicts, r.anomalies, 500)
                     /\ served' = served + 1
                     /\ last_batch' = <<>>
                     /\ UNCHANGED upd
                ELSE LET features_df == PrepareFeaturesDataframe(transactions)
                     IN  /\ baseline_stats' =
                                GetBaselineByHourAndStatus(stats, transactions)
                         /\ mad_arg' = MadArgs(mads, transactions)
                         /\ baseline_features_df' = features_df
                         /\ isolation_forest' =
                                TrainIsolationForest(r.forest, features_df)
                         /\ trained_on' =
                                Merged(built, Provenance({"request"}, features_df))
                         /\ db' = rows
                         /\ call' = CallRecord("process_transactions", transactions,
                                               verdicts, r.anomalies, 200)
                         /\ served' = served + 1
                         /\ last_batch' = transactions
                         /\ UNCHANGED upd

NextApp == ProcessTransactions \/ Return

SpecApp == InitApp /\ [][NextApp]_vars

----------------------------------------------------------------------------
(* update_baseline statement by statement, beside detect_anomalies calls on  *)
(* the same instance                                                         *)

StatusOrder ==
    <<"approved", "denied", "reversed", "refunded", "processing",
      "backend_reversed", "failed">>

\* df["hour"].unique(): the hours in order of first appearance
RECURSIVE UniqueHours(_, _)
UniqueHours(df, seen) ==
    IF df = <<>> THEN <<>>
    ELSE LET h == ExtractHourFromTime(TimeOf(Head(df)))
         IN  IF h \in seen THEN UniqueHours(Tail(df), seen)
             ELSE <<h>> \o UniqueHours(Tail(df), seen \cup {h})

UpdState(pc, batch, hours, statuses, pre) ==
    [pc |-> pc, batch |-> batch, hours |-> hours, statuses |-> statuses, pre |-> pre]

SetHour(stats, hour, m) ==
    [h \in (DOMAIN stats) \cup {hour} |-> IF h = hour THEN m ELSE stats[h]]

SetStatus(m, status, v) ==
    [s \in (DOMAIN m) \cup {status} |-> IF s = status THEN v ELSE m[s]]

\* update_baseline is entered: df["hour"] and the list of hours are computed,
\* or the call ends there with the exception of a time that does not parse
StartUpdate ==
    /\ upd.pc = "idle"
    /\ \E historical_data \in HistBatches :
        LET pre == [stats |-> baseline_stats, forest |-> isolation_forest]
        IN  IF AllParse(historical_data)
            THEN /\ upd' = UpdState("hours", historical_data,
                                    UniqueHours(historical_data, {}), <<>>, pre)
                 /\ trained_on' =
                        Merged(trained_on,
                               Provenance({"historical"},
                                          PrepareFeaturesDataframe(historical_data)))
            ELSE /\ upd' = UpdState("raised", historical_data, <<>>, <<>>, pre)
                 /\ UNCHANGED trained_on
    /\ UNCHANGED <<db, baseline_stats, baseline_features_df, isolation_forest,
                   mad_arg, call, served>>
    /\ last_batch' = IF AllParse(upd'.batch) THEN upd'.batch ELSE last_batch

\* self.baseline_stats[hour] = {}
ClearHour ==
    /\ upd.pc = "hours" /\ upd.hours # <<>>
    /\ baseline_stats' = SetHour(baseline_stats, Head(upd.hours), NoStats)
    /\ mad_arg' = SetHour(mad_arg, Head(upd.hours), NoStats)
    /\ upd' = [upd EXCEPT !.pc = "statuses", !.statuses = StatusOrder]
    /\ UNCHANGED <<db, baseline_features_df, isolation_forest, trained_on, call,
                   served, last_batch>>

\* one iteration of "for status in TransactionStatus"
WriteStatus ==
    /\ upd.pc = "statuses"
    /\ LET hour == Head(upd.hours)
           status == Head(upd.statuses)
           last == Tail(upd.statuses) = <<>>
       IN  /\ IF CountsWithStatus(upd.batch, status) # <<>>
              THEN /\ baseline_stats' =
                          SetHour(baseline_stats, hour,
                                  SetStatus(baseline_stats[hour], status,
                                            Stats(StatsKwargs(upd.batch, status))))
                   /\ mad_arg' =
                          SetHour(mad_arg, hour,
                                  SetStatus(mad_arg[hour], status,
                                            StatsKwargs(upd.batch, status).mad))
              ELSE UNCHANGED <<baseline_stats, mad_arg>>
           /\ upd' = [upd EXCEPT !.statuses = Tail(upd.statuses),
                                 !.pc = IF last THEN "hours" ELSE "statuses",
                                 !.hours = IF last THEN Tail(upd.hours) ELSE upd.hours]
    /\ UNCHANGED <<db, baseline_features_df, isolation_forest, trained_on, call,
                   served, last_batch>>

\* self.baseline_features_df = self._prepare_features_dataframe(historical_data)
StoreFeatures ==
    /\ upd.pc = "hours" /\ upd.hours = <<>>
    /\ baseline_features_df' = PrepareFeaturesDataframe(upd.batch)
    /\ upd' = [upd EXCEPT !.pc = "train"]
    /\ UNCHANGED <<db, baseline_stats, isolation_forest, mad_arg, trained_on, call,
                   served, last_batch>>

\* self._train_isolation_forest()
TrainStep ==
    /\ upd.pc = "train"
    /\ isolation_forest' = TrainIsolationForest(isolation_forest, baseline_features_df)
    /\ upd' = [upd EXCEPT !.pc = "done"]
    /\ UNCHANGED <<db, baseline_stats, baseline_features_df, mad_arg, trained_on, call,
                   served, last_batch>>

NextConc ==
    \/ StartUpdate \/ ClearHour \/ WriteStatus \/ StoreFeatures \/ TrainStep
    \/ DetectAnomaliesCall \/ Return

SpecConc == Init /\ [][NextConc]_vars

\* the statements of an update add up to the update
StepwiseUpdateAgrees ==
    upd.pc = "done" =>
        /\ baseline_stats = GetBaselineByHourAndStatus(upd.pre.stats, upd.batch)
        /\ mad_arg = MadArgs(mad_arg, upd.batch)
        /\ baseline_features_df = PrepareFeaturesDataframe(upd.batch)
        /\ isolation_forest =
               TrainIsolationForest(upd.pre.forest, PrepareFeaturesDataframe(upd.batch))

----------------------------------------------------------------------------
(* Vocabulary of the properties *)

Detected == call.op = "detect_anomalies"
Updated == call.op = "update_baseline" /\ call.error = "none"
UpdateRaised == call.op = "update_baseline" /\ call.error # "none"
TrainedMode == isolation_forest.fitted

BadStatuses == {"failed", "denied", "reversed", "backend_reversed"}

Entry(tx) == baseline_stats[ExtractHourFromTime(TimeOf(tx))][StatusOf(tx)]

\* the robust sigma and score of the scoring rule, from the entry of the
\* observation and the median the builder computed for it
RuleSigma(tx) ==
    LET mad == mad_arg[ExtractHourFromTime(TimeOf(tx))][StatusOf(tx)]
    IN  RMax(RInt(1),
             IF RGt(mad, RInt(0)) THEN RMul(<<7413, 5000>>, mad) ELSE Entry(tx).std)

RuleZ(tx) == RDiv(RSub(RInt(CountOf(tx)), Entry(tx).mean), RuleSigma(tx))

\* the verdict of the time bucket of tx in the last detect_anomalies call
VerdictOf(time) ==
    LET times == SortedTimes(TimesIn(call.batch))
    IN  call.verdicts[CHOOSE i \in DOMAIN times : times[i] = time]

IsRecordOf(a, tx) ==
    a.time = TimeOf(tx) /\ a.status = StatusOf(tx) /\ a.count = CountOf(tx)

\* the returned records of one observation, and how often the batch holds it
RecordsOf(tx) == SelectSeq(call.anomalies, LAMBDA a : IsRecordOf(a, tx))
Occurrences(tx) == Cardinality({i \in DOMAIN call.batch : call.batch[i] = tx})

\* every occurrence of tx has exactly one record, of that level and score
ReportedOnceAs(tx, level, score) ==
    /\ Len(RecordsOf(tx)) = Occurrences(tx)
    /\ \A i \in DOMAIN RecordsOf(tx) :
           RecordsOf(tx)[i].level = level /\ RecordsOf(tx)[i].score = score

OverP99(tx) == RGt(RInt(CountOf(tx)), Entry(tx).p99)
OverP95(tx) == RGt(RInt(CountOf(tx)), Entry(tx).p95)

----------------------------------------------------------------------------
(* C1 - C7, C9 *)

\* C1: in trained mode a BAD observation with a baseline entry gets exactly one
\* CRITICAL record when count > p99, |z| > 3 and its bucket's verdict is -1,
\* else exactly one WARNING record when count > p95, |z| > 2 and the verdict
\* is -1, else no record, z being (count - mean) / sigma.
C1_TrainedClassification ==
    (Detected /\ TrainedMode) =>
        \A tx \in Range(call.batch) :
            (StatusOf(tx) \in BadStatuses /\ HasBaseline(baseline_stats, tx)) =>
                IF /\ OverP99(tx)
                   /\ RGt(RAbs(RuleZ(tx)), RInt(3))
                   /\ VerdictOf(TimeOf(tx)) = -1
                THEN ReportedOnceAs(tx, "CRITICAL", RuleZ(tx))
                ELSE IF /\ OverP95(tx)
                        /\ RGt(RAbs(RuleZ(tx)), RInt(2))
                        /\ VerdictOf(TimeOf(tx)) = -1
                THEN ReportedOnceAs(tx, "WARNING", RuleZ(tx))
                ELSE RecordsOf(tx) = <<>>

\* C2: in trained mode every returned record belongs to a time bucket whose
\* outlier verdict is -1; an observation of a bucket with verdict 1 has no record.
C2_VerdictGating ==
    (Detected /\ TrainedMode) =>
        \A i \in DOMAIN call.anomalies : VerdictOf(call.anomalies[i].time) = -1

\* a trained-mode call in which a BAD observation far over p99 sits in a bucket
\* the model calls normal, and has no record
C2_Witness ==
    /\ Detected /\ TrainedMode
    /\ \E tx \in Range(call.batch) :
           /\ StatusOf(tx) \in BadStatuses
           /\ HasBaseline(baseline_stats, tx)
           /\ OverP99(tx)
           /\ RGt(RAbs(RuleZ(tx)), RInt(3))
           /\ VerdictOf(TimeOf(tx)) = 1
           /\ RecordsOf(tx) = <<>>

\* C3: in both modes every returned record has a BAD status; approved, refunded
\* and processing observations never produce a record.
C3_OnlyBadStatuses ==
    Detected => \A i \in DOMAIN call.anomalies : call.anomalies[i].status \in BadStatuses

\* a call whose batch holds a non-BAD observation over the p99 of its own baseline
C3_Witness ==
    /\ Detected
    /\ \E tx \in Range(call.batch) :
           /\ StatusOf(tx) \notin BadStatuses
           /\ HasBaseline(baseline_stats, tx)
           /\ OverP99(tx)
           /\ RecordsOf(tx) = <<>>

\* C4: with an untrained model a BAD observation gets exactly one WARNING record
\* with score z when |z| > 3, and no record otherwise, z being
\* (count - mean) / sigma against the matching baseline.
C4_ScoreOnlyFallback ==
    (Detected /\ ~TrainedMode) =>
        \A tx \in Range(call.batch) :
            StatusOf(tx) \in BadStatuses =>
                IF HasBaseline(baseline_stats, tx) /\ RGt(RAbs(RuleZ(tx)), RInt(3))
                THEN ReportedOnceAs(tx, "WARNING", RuleZ(tx))
                ELSE RecordsOf(tx) = <<>>

\* C5: for every observation with a baseline entry the ScoringEngine returns
\* sigma = max(1.0, 1.4826 * mad if mad > 0 else std) >= 1.0 and
\* z = (count - mean) / sigma.
C5_SigmaFloor ==
    Detected =>
        \A tx \in Range(call.batch) :
            HasBaseline(baseline_stats, tx) =>
                /\ CalculateZScore(baseline_stats, tx).sigma = RuleSigma(tx)
                /\ ~RLt(CalculateZScore(baseline_stats, tx).sigma, RInt(1))
                /\ CalculateZScore(baseline_stats, tx).z_score = RuleZ(tx)

\* counts of the observations of a batch with a given hour and status
RECURSIVE CountsOfHourStatus(_, _, _)
CountsOfHourStatus(df, hour, status) ==
    IF df = <<>> THEN <<>>
    ELSE (IF ExtractHourFromTime(TimeOf(Head(df))) = hour /\ StatusOf(Head(df)) = status
          THEN <<CountOf(Head(df))>> ELSE <<>>)
         \o CountsOfHourStatus(Tail(df), hour, status)

\* C6: after update_baseline(B) the store holds an entry for (h, s) iff B has an
\* observation of hour h and status s, and its mean is the mean of exactly
\* those observations.
C6_EntryPerHourStatus ==
    Updated =>
        \A hour \in (DOMAIN baseline_stats) \cup HoursIn(call.batch) :
            \A status \in TransactionStatus :
                LET c == CountsOfHourStatus(call.batch, hour, status)
                    held == hour \in DOMAIN baseline_stats
                            /\ status \in DOMAIN baseline_stats[hour]
                IN  /\ held <=> (c # <<>>)
                    /\ held => baseline_stats[hour][status].mean = Mean(c)

\* C7: after update_baseline the store depends only on the batch of that call:
\* no entry of an hour that does not occur in the batch survives.
C7_WholesaleOverwrite ==
    Updated =>
        /\ DOMAIN baseline_stats \subseteq HoursIn(call.batch)
        /\ baseline_stats = GetBaselineByHourAndStatus(NoStats, call.batch)

\* C9: a detect_anomalies call leaves the BaselineStore, the baseline feature
\* table and the fitted state of the OutlierModel as they were.
C9_DetectReadsOnly ==
    [][(call'.op = "detect_anomalies" /\ call.op # "detect_anomalies") =>
           UNCHANGED <<baseline_stats, baseline_features_df, isolation_forest>>]_vars

\* a trained-mode call over a batch whose feature table differs from the one
\* the model was fit on
C9_Witness ==
    /\ Detected /\ TrainedMode
    /\ call.batch # <<>>
    /\ PrepareFeaturesDataframe(call.batch) # isolation_forest.X

\* C8: over any sequence of POST /transactions requests, no observation
\* submitted for detection is part of the data from which the baseline is built
\* or on which the model is fit.
C8_NeverFitOnRequestData ==
    "request" \notin trained_on.baseline \cup trained_on.model

\* C10: a detect_anomalies call that runs while an update_baseline is in
\* progress observes the complete pre-update or the complete post-update
\* (BaselineStore, OutlierModel) pair.
C10_SnapshotIsolation ==
    [][(call'.op = "detect_anomalies" /\ call.op # "detect_anomalies"
        /\ upd.pc \notin {"idle", "done"}) =>
           \/ /\ baseline_stats = upd.pre.stats
              /\ isolation_forest = upd.pre.forest
           \/ /\ baseline_stats = GetBaselineByHourAndStatus(upd.pre.stats, upd.batch)
              /\ isolation_forest =
                     TrainIsolationForest(upd.pre.forest,
                                          PrepareFeaturesDataframe(upd.batch))]_vars

----------------------------------------------------------------------------
(* C11 - C17 *)

\* C11: update_baseline called with a batch in which some observation's time
\* cannot be parsed into an hour ends with an error passed to the caller, and
\* leaves the BaselineStore, the baseline feature table and the OutlierModel
\* exactly as they were before the call.
C11_MalformedBatchRejected ==
    [][(call'.op = "update_baseline" /\ call.op # "update_baseline"
        /\ ~AllParse(call'.batch)) =>
           /\ call'.error # "none"
           /\ UNCHANGED <<baseline_stats, baseline_features_df, isolation_forest>>]_vars

\* a rejected batch with a well-formed observation of an hour the store does
\* not hold
C11_Witness ==
    /\ UpdateRaised
    /\ \E i \in DOMAIN call.batch :
           /\ Parses(TimeOf(call.batch[i]))
           /\ ExtractHourFromTime(TimeOf(call.batch[i])) \notin DOMAIN baseline_stats

\* the level the classification rule of the current mode gives to a BAD
\* observation with a baseline entry
DueLevel(tx) ==
    IF ~TrainedMode
    THEN IF RGt(RAbs(RuleZ(tx)), RInt(3)) THEN "WARNING" ELSE "none"
    ELSE IF VerdictOf(TimeOf(tx)) # -1 THEN "none"
         ELSE IF OverP99(tx) /\ RGt(RAbs(RuleZ(tx)), RInt(3)) THEN "CRITICAL"
         ELSE IF OverP95(tx) /\ RGt(RAbs(RuleZ(tx)), RInt(2)) THEN "WARNING"
         ELSE "none"

NoBaselineIn(batch) == {tx \in Range(batch) : ~HasBaseline(baseline_stats, tx)}

\* the part of C12 about the observation without an entry itself
MissingBaselineScoresZero ==
    Detected =>
        \A tx \in NoBaselineIn(call.batch) :
            /\ CalculateZScore(baseline_stats, tx).z_score = RInt(0)
            /\ CalculateZScore(baseline_stats, tx).msg = "No baseline data available"
            /\ RecordsOf(tx) = <<>>

\* C12: an observation whose (hour, status) has no baseline entry gets a zero
\* score with the no-baseline diagnostic and no record, in either mode, and
\* the other observations of the same batch are still evaluated and reported
\* as the rule of the mode prescribes.
C12_MissingBaselineTolerated ==
    (Detected /\ NoBaselineIn(call.batch) # {}) =>
        \A tx \in Range(call.batch) :
            IF ~HasBaseline(baseline_stats, tx)
            THEN /\ CalculateZScore(baseline_stats, tx).z_score = RInt(0)
                 /\ CalculateZScore(baseline_stats, tx).msg = "No baseline data available"
                 /\ RecordsOf(tx) = <<>>
            ELSE (StatusOf(tx) \in BadStatuses /\ DueLevel(tx) # "none") =>
                     ReportedOnceAs(tx, DueLevel(tx), RuleZ(tx))

\* C13: update_baseline on a batch with 10 or more distinct time buckets fits
\* the OutlierModel on the features of that batch, so that the engine is in
\* trained mode afterwards; on a batch with 9 or fewer it performs no fit.
C13_FitThreshold ==
    [][(call'.op = "update_baseline" /\ call.op # "update_baseline"
        /\ call'.error = "none") =>
           IF Cardinality(TimesIn(call'.batch)) >= 10
           THEN /\ isolation_forest'.fitted
                /\ isolation_forest'.X = PrepareFeaturesDataframe(call'.batch)
           ELSE isolation_forest' = isolation_forest]_vars

\* C14: an update_baseline call with the same batch as the call before it
\* leaves the BaselineStore, keys and values, as that first call left it.
C14_UpdateIdempotent ==
    [][(call'.op = "update_baseline" /\ call.op # "update_baseline"
        /\ call'.batch = last_batch) =>
           baseline_stats' = baseline_stats /\ mad_arg' = mad_arg]_vars

\* the second of two calls with the same well-formed batch has returned, over a
\* store that holds an hour the batch does not touch
C14_Witness ==
    /\ Updated
    /\ call.repeated
    /\ DOMAIN baseline_stats # HoursIn(call.batch)

\* the sum of the counts of the observations of df at a time, with a status in S
RECURSIVE CountSum(_, _, _)
CountSum(df, time, S) ==
    IF df = <<>> THEN 0
    ELSE (IF TimeOf(Head(df)) = time /\ StatusOf(Head(df)) \in S
          THEN CountOf(Head(df)) ELSE 0)
         + CountSum(Tail(df), time, S)

\* C15: the feature table of a batch has one row per distinct time bucket;
\* total_count is the sum of all counts of the batch in the bucket, bad_count
\* the sum of those of BAD statuses, so 0 <= bad_count <= total_count, and
\* bad_rate lies in [0, 1] and is 0 when total_count is 0.
C15_FeatureRows ==
    Updated =>
        LET f == baseline_features_df
        IN  /\ {f[i].time : i \in DOMAIN f} = TimesIn(call.batch)
            /\ Len(f) = Cardinality(TimesIn(call.batch))
            /\ \A i \in DOMAIN f :
                   /\ f[i].total_count =
                          RInt(CountSum(call.batch, f[i].time, TransactionStatus))
                   /\ f[i].bad_count =
                          RInt(CountSum(call.batch, f[i].time, BadStatuses))
                   /\ ~RLt(f[i].bad_count, RInt(0))
                   /\ ~RGt(f[i].bad_count, f[i].total_count)
                   /\ ~RLt(f[i].bad_rate, RInt(0))
                   /\ ~RGt(f[i].bad_rate, RInt(1))
                   /\ f[i].total_count = RInt(0) => f[i].bad_rate = RInt(0)

\* C16: every POST /transactions request with a well-formed batch is answered
\* with HTTP 200 and the detected anomalies, and the transactions of its batch
\* are committed; also when anomalies are detected and an alert is attempted.
C16_RequestSucceeds ==
    call.op = "process_transactions" =>
        /\ call.response = 200
        /\ Len(db) >= Len(call.batch)
        /\ SubSeq(db, Len(db) - Len(call.batch) + 1, Len(db)) = call.batch

\* C17: whenever detect_anomalies runs in trained mode, the fitted OutlierModel
\* was fit on the feature table of the batch from which the current
\* BaselineStore was built, the batch of the latest update_baseline: an update
\* whose fit is skipped leaves no model of an earlier batch in use.
C17_ModelMatchesBaseline ==
    (Detected /\ TrainedMode) => isolation_forest.X = baseline_features_df

====
